---- MODULE Spec2Model ----
(***************************************************************************)
(* ES|QL command-line client: the interactive REPL (cli.py) with its       *)
(* completer and result formatter, and the one-shot CLI (esql.py).         *)
(*                                                                         *)
(* Python strings whose characters matter (input lines, text before the    *)
(* cursor, keywords, index names) are sequences of one-character strings.  *)
(* Python's None is the value None below.                                  *)
(***************************************************************************)
EXTENDS Integers, Sequences, FiniteSets, TLC

\* ------------------------------------------------------------------------
\* Bounds of the model
\* ------------------------------------------------------------------------
\* Number of times session.prompt is called in one run of the REPL.
MaxPrompts == 3

\* ------------------------------------------------------------------------
\* Python string methods used by the source
\* ------------------------------------------------------------------------
Lowers == <<"a","b","c","d","e","f","g","h","i","j","k","l","m",
            "n","o","p","q","r","s","t","u","v","w","x","y","z">>
Uppers == <<"A","B","C","D","E","F","G","H","I","J","K","L","M",
            "N","O","P","Q","R","S","T","U","V","W","X","Y","Z">>

upper_char(c) ==
   IF \E i \in 1..Len(Lowers) : Lowers[i] = c
   THEN Uppers[CHOOSE i \in 1..Len(Lowers) : Lowers[i] = c]
   ELSE c

lower_char(c) ==
   IF \E i \in 1..Len(Uppers) : Uppers[i] = c
   THEN Lowers[CHOOSE i \in 1..Len(Uppers) : Uppers[i] = c]
   ELSE c

\* str.upper()
upper(s) == [i \in 1..Len(s) |-> upper_char(s[i])]

\* str.lower()
lower(s) == [i \in 1..Len(s) |-> lower_char(s[i])]

\* str.isspace() of one character
isspace(c) == c \in {" ", "\t"}

RECURSIVE lstrip(_)
lstrip(s) ==
   IF s = <<>> THEN <<>>
   ELSE IF isspace(Head(s)) THEN lstrip(Tail(s)) ELSE s

RECURSIVE rstrip(_)
rstrip(s) ==
   IF s = <<>> THEN <<>>
   ELSE IF isspace(s[Len(s)]) THEN rstrip(SubSeq(s, 1, Len(s) - 1)) ELSE s

\* str.strip()
strip(s) == rstrip(lstrip(s))

\* str.startswith(prefix)
startswith(s, prefix) ==
   /\ Len(prefix) <= Len(s)
   /\ SubSeq(s, 1, Len(prefix)) = prefix

\* str.split(): the maximal runs of non-whitespace characters, in order
RECURSIVE split_from(_, _, _)
split_from(s, cur, acc) ==
   IF s = <<>>
   THEN IF cur = <<>> THEN acc ELSE Append(acc, cur)
   ELSE IF isspace(Head(s))
        THEN split_from(Tail(s), <<>>, IF cur = <<>> THEN acc ELSE Append(acc, cur))
        ELSE split_from(Tail(s), Append(cur, Head(s)), acc)

split(s) == split_from(s, <<>>, <<>>)

\* seq[-2:]
last_two(seq) == IF Len(seq) <= 2 THEN seq ELSE SubSeq(seq, Len(seq) - 1, Len(seq))

\* x in seq
contains(seq, x) == \E i \in 1..Len(seq) : seq[i] = x

\* ------------------------------------------------------------------------
\* Exceptions: the classes the source raises or catches, each with its base
\* class (Python builtins, elasticsearch, requests)
\* ------------------------------------------------------------------------
None == "<None>"

BaseOf ==
   [ BaseException           |-> None,
     KeyboardInterrupt       |-> "BaseException",
     Exception               |-> "BaseException",
     EOFError                |-> "Exception",
     ValueError              |-> "Exception",
     KeyError                |-> "Exception",
     ApiError                |-> "Exception",
     AuthenticationException |-> "ApiError",
     TransportError          |-> "Exception",
     ConnectionError         |-> "TransportError",
     ConnectionTimeout       |-> "TransportError",
     RequestException        |-> "Exception",
     HTTPError               |-> "RequestException",
     RequestsConnectionError |-> "RequestException",
     JSONDecodeError         |-> "RequestException" ]

RECURSIVE isinstance(_, _)
isinstance(e, cls) ==
   IF e = None THEN FALSE
   ELSE IF e = cls THEN TRUE
   ELSE isinstance(BaseOf[e], cls)

\* ------------------------------------------------------------------------
\* Environment, service responses and console output
\* ------------------------------------------------------------------------
\* Values os.environ.get / os.getenv can return for the two variables.
EnvUrls == {None, "", "https://es.example:9243"}
EnvKeys == {None, "", "k3y"}

\* Python truthiness of an environment value
truthy(v) == v # None /\ v # ""

\* Decoded JSON bodies of the query endpoint: keys is the set of top-level
\* keys; a cell of values is a decoded scalar (None for JSON null).
Columns == << [name |-> "a"], [name |-> "b"] >>
RowsBody  == [keys |-> {"columns", "values"}, columns |-> Columns,
              values |-> << <<"1", "x">>, <<None, "y">> >>]
EmptyBody == [keys |-> {"columns", "values"}, columns |-> Columns,
              values |-> <<>>]
ErrorBody == [keys |-> {"error"}, columns |-> <<>>, values |-> <<>>]
Bodies == {RowsBody, EmptyBody, ErrorBody}

\* One thing written to the terminal.  Plain messages have no cells.
Msg(kind) == [kind |-> kind, cols |-> <<>>, rows |-> <<>>]

\* str(item)
str(item) == IF item = None THEN "None" ELSE item

\* [col['name'] for col in response['columns']]
column_names(body) == [i \in 1..Len(body.columns) |-> body.columns[i].name]

\* ------------------------------------------------------------------------
\* cli.py: print_results
\* ------------------------------------------------------------------------
\* print_results without the test for an empty list of rows.
print_results_no_notice(response) ==
   IF ~ ({"columns", "values"} \subseteq response.keys)
   THEN [out |-> <<>>, raised |-> "KeyError"]
   ELSE [out |-> << [kind |-> "Table",
                     cols |-> column_names(response),
                     rows |-> [i \in 1..Len(response.values) |->
                                 [j \in 1..Len(response.values[i]) |->
                                    str(response.values[i][j])]]] >>,
         raised |-> None]

\* The outcome of print_results(response): what it prints and the exception
\* it raises, if any.
print_results(response) ==
   IF ~ ({"columns", "values"} \subseteq response.keys)
   THEN [out |-> <<>>, raised |-> "KeyError"]
   ELSE IF response.values = <<>>
   THEN [out |-> << Msg("Query returned no results.") >>, raised |-> None]
   ELSE [out |-> << [kind |-> "Table",
                     cols |-> column_names(response),
                     rows |-> [i \in 1..Len(response.values) |->
                                 [j \in 1..Len(response.values[i]) |->
                                    str(response.values[i][j])]]] >>,
         raised |-> None]

\* ------------------------------------------------------------------------
\* State
\* ------------------------------------------------------------------------
VARIABLES
   prog,       \* which entry point runs: "cli" (cli.py) or "esql" (esql.py)
   pc,         \* position of main()
   env,        \* ELASTICSEARCH_URL and ELASTICSEARCH_API_KEY
   argv,       \* the command line
   es_client,  \* cli.py: None, "open" or "closed"
   ping,       \* cli.py: how es_client.ping() ended (None before the call)
   target,     \* where the client or the request is directed
   console,    \* everything printed so far
   prompts,    \* cli.py: number of session.prompt calls
   inputs,     \* cli.py: the lines session.prompt has returned
   query,      \* the query about to be executed
   executed,   \* the queries handed to the query executor
   resp,       \* the body of the last response received
   raised,     \* the exception raised in the last step (None if none)
   unhandled,  \* the exception propagating out of main() (None if none)
   closes,     \* cli.py: number of es_client.close() calls
   exit_code,  \* process exit status (-1 while running)
   document,   \* completer: text before the cursor
   service,    \* completer: how the index-listing call ends
   completions \* completer: result of get_completions

vars == << prog, pc, env, argv, es_client, ping, target, console, prompts, inputs,
           query, executed, resp, raised, unhandled, closes, exit_code,
           document, service, completions >>

completer_vars == << document, service, completions >>

\* ------------------------------------------------------------------------
\* cli.py: main
\* ------------------------------------------------------------------------
\* Lines session.prompt can return.
Lines ==
   { <<>>,
     <<" ", " ">>,
     <<"e","x","i","t">>,
     <<" ","Q","U","I","T"," ">>,
     <<"R","O","W"," ","1">>,
     <<"e","x","i","t"," ","n","o","w">> }

\* Exceptions session.prompt raises on Ctrl-C and Ctrl-D.
Interrupts == {"KeyboardInterrupt", "EOFError"}

\* Ways es_client.esql.query(query=query) can end other than by returning.
QueryExceptions ==
   {"ApiError", "AuthenticationException", "ConnectionError", "ValueError",
    "KeyboardInterrupt"}

\* Ways the Elasticsearch constructor ends: it returns or rejects its arguments.
ConstructorOutcomes == {"ok", "ValueError"}

\* Ways es_client.ping() ends.
PingOutcomes ==
   {"True", "False", "ConnectionError", "AuthenticationException",
    "KeyboardInterrupt"}

\* The exit test without lower().
is_exit_case_sensitive(line) ==
   strip(line) \in { <<"e","x","i","t">>, <<"q","u","i","t">> }

\* query.lower().strip() in ["exit", "quit"]
is_exit(line) ==
   strip(lower(line)) \in { <<"e","x","i","t">>, <<"q","u","i","t">> }

\* not query.strip()
is_blank(line) == strip(line) = <<>>

\* The loop's try with the except ApiError clause only.
inner_catches_api_only(e) == isinstance(e, "ApiError")

\* the except clauses of the while loop's try
inner_catches(e) == isinstance(e, "ApiError") \/ isinstance(e, "Exception")

inner_message(e) ==
   IF isinstance(e, "ApiError") THEN Msg("API Error:")
   ELSE Msg("An unexpected error occurred:")

\* the except clauses of main's outer try
outer_catches(e) ==
   \/ isinstance(e, "ConnectionError") \/ isinstance(e, "AuthenticationException")
   \/ isinstance(e, "KeyboardInterrupt") \/ isinstance(e, "EOFError")

outer_message(e) ==
   IF isinstance(e, "ConnectionError") \/ isinstance(e, "AuthenticationException")
   THEN << Msg("Error connecting to Elasticsearch:") >>
   ELSE <<>>

\* An exception e leaves the outer try body after out was printed.
raise_in_main(e, out) ==
   /\ raised' = e
   /\ console' = out \o outer_message(e)
   /\ unhandled' = IF outer_catches(e) THEN None ELSE e
   /\ pc' = "Closing"

\* An exception e is raised inside the while loop's try after out was printed.
raise_in_loop(e, out) ==
   IF inner_catches(e)
   THEN /\ raised' = e
        /\ console' = Append(out, inner_message(e))
        /\ unhandled' = unhandled
        /\ pc' = "Prompting"
   ELSE raise_in_main(e, out)

\* The client built from the environment whenever the API key is set.
client_target_key_only ==
   IF truthy(env.key)
   THEN [url |-> env.url, api_key |-> env.key]
   ELSE [url |-> "http://localhost:9200", api_key |-> None]

\* The host the client is built for and whether the API key is passed.
client_target ==
   IF truthy(env.url) /\ truthy(env.key)
   THEN [url |-> env.url, api_key |-> env.key]
   ELSE [url |-> "http://localhost:9200", api_key |-> None]

connect_banner ==
   << Msg("--- Elasticsearch ESQL CLI ---"),
      Msg("Connecting to Elasticsearch..."),
      IF truthy(env.url) /\ truthy(env.key)
      THEN Msg("Connecting to URL using API key.")
      ELSE Msg("Environment variables not found. Connecting to http://localhost:9200.") >>

\* main without the test of ping()'s result.
ping_failure_ignored(p) ==
   IF p \in {"True", "False"} THEN None ELSE p

\* What main does when ping() ended as p: None to go on, else the exception.
ping_failure(p) ==
   IF p = "True" THEN None
   ELSE IF p = "False" THEN "ConnectionError"
   ELSE p

\* From the start of main to the first prompt.
cli_connect ==
   /\ prog = "cli" /\ pc = "Connecting"
   /\ target' = client_target
   /\ UNCHANGED << prog, env, argv, prompts, inputs, query, executed, resp,
                   closes, exit_code, completer_vars >>
   /\ \E c \in ConstructorOutcomes, p \in PingOutcomes :
         IF c # "ok"
         THEN /\ es_client' = None
              /\ ping' = ping
              /\ raise_in_main(c, connect_banner)
         ELSE /\ es_client' = "open"
              /\ ping' = p
              /\ IF ping_failure(p) # None
                 THEN raise_in_main(ping_failure(p), connect_banner)
                 ELSE /\ raised' = None
                      /\ console' = Append(connect_banner,
                                      Msg("Successfully connected to Elasticsearch."))
                      /\ unhandled' = unhandled
                      /\ pc' = "Prompting"

\* One pass of the loop up to the query: session.prompt and the two tests.
cli_prompt ==
   /\ prog = "cli" /\ pc = "Prompting"
   /\ prompts < MaxPrompts
   /\ prompts' = prompts + 1
   /\ UNCHANGED << prog, env, argv, es_client, ping, target, executed, resp,
                   closes, exit_code, completer_vars >>
   /\ \/ \E line \in Lines :
            /\ inputs' = Append(inputs, line)
            /\ raised' = None
            /\ UNCHANGED << console, unhandled >>
            /\ query' = line
            /\ pc' = IF is_exit(line) THEN "Closing"
                     ELSE IF is_blank(line) THEN "Prompting"
                     ELSE "Executing"
      \/ \E e \in Interrupts :
            /\ UNCHANGED << inputs, query >>
            /\ raise_in_loop(e, console)

\* es_client.esql.query(query=query) and print_results(resp.body).
cli_execute ==
   /\ prog = "cli" /\ pc = "Executing"
   /\ executed' = Append(executed, query)
   /\ UNCHANGED << prog, env, argv, es_client, ping, target, prompts, inputs,
                   query, closes, exit_code, completer_vars >>
   /\ \/ \E body \in Bodies :
            LET r == print_results(body) IN
            /\ resp' = body
            /\ IF r.raised # None
               THEN raise_in_loop(r.raised, console \o r.out)
               ELSE /\ raised' = None
                    /\ console' = console \o r.out
                    /\ unhandled' = unhandled
                    /\ pc' = "Prompting"
      \/ \E e \in QueryExceptions :
            /\ resp' = resp
            /\ raise_in_loop(e, console)

\* The finally clause without es_client.close().
cli_closing_leak ==
   /\ prog = "cli" /\ pc = "Closing"
   /\ console' = Append(console, Msg("Exiting ESQL CLI. Goodbye!"))
   /\ exit_code' = IF unhandled = None THEN 0 ELSE 1
   /\ raised' = None
   /\ pc' = "Done"
   /\ UNCHANGED << prog, env, argv, es_client, ping, target, prompts, inputs,
                   query, executed, resp, unhandled, closes, completer_vars >>

\* The finally clause of main, then the end of the process.
cli_closing ==
   /\ prog = "cli" /\ pc = "Closing"
   /\ console' = Append(console, Msg("Exiting ESQL CLI. Goodbye!"))
   /\ es_client' = IF es_client # None THEN "closed" ELSE es_client
   /\ closes' = IF es_client # None THEN closes + 1 ELSE closes
   /\ exit_code' = IF unhandled = None THEN 0 ELSE 1
   /\ raised' = None
   /\ pc' = "Done"
   /\ UNCHANGED << prog, env, argv, ping, target, prompts, inputs, query,
                   executed, resp, unhandled, completer_vars >>

\* ------------------------------------------------------------------------
\* esql.py: json_to_dataframe, esql_query, main
\* ------------------------------------------------------------------------
\* Command lines: the flags given and the value of --query.
Argvs ==
   { [flags |-> {},                    query |-> <<>>],
     [flags |-> {"--query"},           query |-> <<"R","O","W"," ","1">>],
     [flags |-> {"--help"},            query |-> <<>>],
     [flags |-> {"--query", "--help"}, query |-> <<"R","O","W"," ","1">>] }

\* parser.parse_args() with the one required option --query: the exit status
\* it ends the process with (-1 when it returns) and what it prints.
parse_args(args) ==
   IF "--help" \in args.flags
   THEN [exit |-> 0, out |-> << Msg("usage and help") >>]
   ELSE IF "--query" \notin args.flags
   THEN [exit |-> 2, out |-> << Msg("error: the following arguments are required: --query") >>]
   ELSE [exit |-> -1, out |-> <<>>]

\* Ways requests.post can end: an exception, or a response with a status,
\* a text that is JSON or not, and the decoded body.
HttpResponses ==
   { [raises |-> None, status |-> 200, is_json |-> TRUE, body |-> b] : b \in Bodies }
   \cup
   { [raises |-> None, status |-> 200, is_json |-> FALSE, body |-> ErrorBody],
     [raises |-> None, status |-> 400, is_json |-> TRUE, body |-> ErrorBody],
     [raises |-> None, status |-> 401, is_json |-> TRUE, body |-> ErrorBody],
     [raises |-> None, status |-> 503, is_json |-> FALSE, body |-> ErrorBody],
     [raises |-> "RequestsConnectionError", status |-> 0, is_json |-> FALSE,
      body |-> ErrorBody],
     [raises |-> "KeyboardInterrupt", status |-> 0, is_json |-> FALSE,
      body |-> ErrorBody] }

NoFrame == [columns |-> <<>>, values |-> <<>>]

\* json_to_dataframe(data): the frame, or the exception raised.
json_to_dataframe(data) ==
   IF ~ ({"columns", "values"} \subseteq data.keys)
   THEN [raised |-> "KeyError", df |-> NoFrame]
   ELSE [raised |-> None,
         df |-> [columns |-> column_names(data), values |-> data.values]]

\* The try body of esql_query on a given outcome of requests.post.
esql_query_try(r) ==
   IF r.raises # None THEN [raised |-> r.raises, df |-> NoFrame]
   ELSE IF r.status >= 400 THEN [raised |-> "HTTPError", df |-> NoFrame]
   ELSE IF ~ r.is_json THEN [raised |-> "JSONDecodeError", df |-> NoFrame]
   ELSE json_to_dataframe(r.body)

\* The except clauses of esql_query with sys.exit(1) missing from the second:
\* esql_query returns None, main prints it and the process ends with 0.
esql_query_except_no_exit(e) ==
   IF isinstance(e, "HTTPError")
   THEN [caught |-> TRUE, out |-> << Msg("HTTP error occurred:") >>, exit |-> 1]
   ELSE IF isinstance(e, "Exception")
   THEN [caught |-> TRUE, out |-> << Msg("An error occurred:"), Msg("None") >>,
         exit |-> 0]
   ELSE [caught |-> FALSE, out |-> << Msg("Traceback") >>, exit |-> 130]

\* The except clauses of esql_query: the message printed and the exit status.
\* An exception they do not catch (an interrupt) leaves main with a traceback.
esql_query_except(e) ==
   IF isinstance(e, "HTTPError")
   THEN [caught |-> TRUE, out |-> << Msg("HTTP error occurred:") >>, exit |-> 1]
   ELSE IF isinstance(e, "Exception")
   THEN [caught |-> TRUE, out |-> << Msg("An error occurred:") >>, exit |-> 1]
   ELSE [caught |-> FALSE, out |-> << Msg("Traceback") >>, exit |-> 130]

\* The endpoint and credentials of the request.
request_target ==
   [url |-> env.url \o "/_query", api_key |-> "ApiKey " \o env.key]

\* console.print(result_df): the frame as pandas writes it.
print_dataframe(df) ==
   IF df.values = <<>>
   THEN [kind |-> "Empty DataFrame", cols |-> df.columns, rows |-> <<>>]
   ELSE [kind |-> "DataFrame",
         cols |-> df.columns,
         rows |-> [i \in 1..Len(df.values) |->
                     [j \in 1..Len(df.values[i]) |-> str(df.values[i][j])]]]

\* main up to the call of esql_query: environment checks and parse_args.
esql_main ==
   /\ prog = "esql" /\ pc = "Start"
   /\ UNCHANGED << prog, env, argv, es_client, ping, target, prompts, inputs,
                   executed, resp, raised, unhandled, closes, completer_vars >>
   /\ IF ~ truthy(env.url)
      THEN /\ console' = Append(console, Msg("Error: Elasticsearch URL not found."))
           /\ exit_code' = 1
           /\ pc' = "Done"
           /\ query' = query
      ELSE IF ~ truthy(env.key)
      THEN /\ console' = Append(console, Msg("Error: API key not found."))
           /\ exit_code' = 1
           /\ pc' = "Done"
           /\ query' = query
      ELSE LET a == parse_args(argv) IN
           /\ console' = console \o a.out
           /\ exit_code' = a.exit
           /\ pc' = IF a.exit # -1 THEN "Done" ELSE "Query"
           /\ query' = IF a.exit # -1 THEN query ELSE argv.query

\* The rest of main: result_df = esql_query(...), then
\* print(console.print(result_df)).
esql_main_query ==
   /\ prog = "esql" /\ pc = "Query"
   /\ target' = request_target
   /\ executed' = Append(executed, query)
   /\ pc' = "Done"
   /\ UNCHANGED << prog, env, argv, es_client, ping, prompts, inputs, query,
                   closes, completer_vars >>
   /\ \E r \in HttpResponses :
         LET t == esql_query_try(r)
             h == esql_query_except(t.raised)
         IN  /\ raised' = t.raised
             /\ resp' = IF r.raises = None /\ r.status < 400 /\ r.is_json
                        THEN r.body ELSE resp
             /\ IF t.raised = None
                THEN /\ console' = console \o << print_dataframe(t.df), Msg("None") >>
                     /\ exit_code' = 0
                     /\ unhandled' = unhandled
                ELSE /\ console' = console \o h.out
                     /\ exit_code' = h.exit
                     /\ unhandled' = IF h.caught THEN None ELSE t.raised

\* ------------------------------------------------------------------------
\* cli.py: ESQLCompleter
\* ------------------------------------------------------------------------
ESQL_KEYWORDS ==
   <<
      <<"F","R","O","M">>,
      <<"W","H","E","R","E">>,
      <<"L","I","M","I","T">>,
      <<"G","R","O","U","P"," ","B","Y">>,
      <<"H","A","V","I","N","G">>,
      <<"O","R","D","E","R"," ","B","Y">>,
      <<"A","S","C">>,
      <<"D","E","S","C">>,
      <<"S","E","L","E","C","T">>,
      <<"A","S">>,
      <<"R","O","W">>,
      <<"E","N","R","I","C","H">>,
      <<"D","R","O","P">>,
      <<"K","E","E","P">>,
      <<"M","V","_","E","X","P","A","N","D">>,
      <<"S","O","R","T">>,
      <<"S","U","B","S","T","R","I","N","G">>,
      <<"G","R","O","K">>,
      <<"D","I","S","S","E","C","T">>,
      <<"E","V","A","L">>,
      <<"L","O","O","K","U","P">>,
      <<"M","E","T","A","D","A","T","A">>,
      <<"S","T","A","T","S">>,
      <<"A","N","D">>,
      <<"O","R">>,
      <<"N","O","T">>,
      <<"B","E","T","W","E","E","N">>,
      <<"I","N">>,
      <<"I","S"," ","N","U","L","L">>,
      <<"I","S"," ","N","O","T"," ","N","U","L","L">>,
      <<"L","I","K","E">>,
      <<"R","L","I","K","E">>,
      <<"A","V","G">>,
      <<"C","O","U","N","T">>,
      <<"S","U","M">>,
      <<"M","I","N">>,
      <<"M","A","X">>,
      <<"C","O","U","N","T","_","D","I","S","T","I","N","C","T">>,
      <<"F","I","R","S","T">>,
      <<"L","A","S","T">>,
      <<"K","U","R","T","O","S","I","S">>,
      <<"M","A","D">>,
      <<"P","E","R","C","E","N","T","I","L","E">>,
      <<"P","E","R","C","E","N","T","I","L","E","_","R","A","N","K">>,
      <<"S","K","E","W","N","E","S","S">>,
      <<"S","T","D","D","E","V","_","P","O","P">>,
      <<"S","U","M","_","O","F","_","S","Q","U","A","R","E","S">>,
      <<"V","A","R","_","P","O","P">>,
      <<"V","A","R","_","S","A","M","P">>,
      <<"B","U","C","K","E","T">>,
      <<"C","A","T","E","G","O","R","I","Z","E">>,
      <<"H","I","S","T","O","G","R","A","M">>,
      <<"C","A","S","E">>,
      <<"C","O","A","L","E","S","C","E">>,
      <<"G","R","E","A","T","E","S","T">>,
      <<"L","E","A","S","T">>,
      <<"D","A","T","E","_","D","I","F","F">>,
      <<"D","A","T","E","_","E","X","T","R","A","C","T">>,
      <<"D","A","T","E","_","F","O","R","M","A","T">>,
      <<"D","A","T","E","_","P","A","R","S","E">>,
      <<"D","A","T","E","_","T","R","U","N","C">>,
      <<"N","O","W">>,
      <<"C","I","D","R","_","M","A","T","C","H">>,
      <<"I","P","_","P","R","E","F","I","X">>,
      <<"A","B","S">>,
      <<"A","C","O","S">>,
      <<"A","S","I","N">>,
      <<"A","T","A","N">>,
      <<"A","T","A","N","2">>,
      <<"C","B","R","T">>,
      <<"C","E","I","L">>,
      <<"C","O","S">>,
      <<"C","O","S","H">>,
      <<"D","E","G","R","E","E","S">>,
      <<"E">>,
      <<"E","X","P">>,
      <<"E","X","P","M","1">>,
      <<"F","L","O","O","R">>,
      <<"L","O","G">>,
      <<"L","O","G","1","0">>,
      <<"P","I">>,
      <<"P","O","W","E","R">>,
      <<"R","A","D","I","A","N","S">>,
      <<"R","A","N","D","O","M">>,
      <<"R","O","U","N","D">>,
      <<"S","I","G","N">>,
      <<"S","I","N">>,
      <<"S","I","N","H">>,
      <<"S","Q","R","T">>,
      <<"T","A","N">>,
      <<"T","A","N","H">>,
      <<"A","S","C","I","I">>,
      <<"B","A","S","E","6","4","_","D","E","C","O","D","E">>,
      <<"B","A","S","E","6","4","_","E","N","C","O","D","E">>,
      <<"C","O","N","C","A","T">>,
      <<"I","N","S","E","R","T">>,
      <<"L","C","A","S","E">>,
      <<"L","E","F","T">>,
      <<"L","E","N","G","T","H">>,
      <<"L","O","C","A","T","E">>,
      <<"L","T","R","I","M">>,
      <<"O","C","T","E","T","_","L","E","N","G","T","H">>,
      <<"P","O","S","I","T","I","O","N">>,
      <<"R","E","G","E","X","_","E","X","T","R","A","C","T">>,
      <<"R","E","G","E","X","_","R","E","P","L","A","C","E">>,
      <<"R","E","P","E","A","T">>,
      <<"R","E","P","L","A","C","E">>,
      <<"R","E","V","E","R","S","E">>,
      <<"R","I","G","H","T">>,
      <<"R","T","R","I","M">>,
      <<"S","P","A","C","E">>,
      <<"S","U","B","S","T","R">>,
      <<"T","R","I","M">>,
      <<"U","C","A","S","E">>,
      <<"T","O","_","B","O","O","L","E","A","N">>,
      <<"T","O","_","C","A","R","T","E","S","I","A","N","P","O","I","N","T">>,
      <<"T","O","_","C","A","R","T","E","S","I","A","N","S","H","A","P","E">>,
      <<"T","O","_","D","A","T","E","P","E","R","I","O","D">>,
      <<"T","O","_","D","A","T","E","T","I","M","E">>,
      <<"T","O","_","D","A","T","E","_","N","A","N","O","S">>,
      <<"T","O","_","D","E","G","R","E","E","S">>,
      <<"T","O","_","D","O","U","B","L","E">>,
      <<"T","O","_","G","E","O","P","O","I","N","T">>,
      <<"T","O","_","G","E","O","S","H","A","P","E">>,
      <<"T","O","_","I","N","T","E","G","E","R">>,
      <<"T","O","_","I","P">>,
      <<"T","O","_","L","O","N","G">>,
      <<"T","O","_","R","A","D","I","A","N","S">>,
      <<"T","O","_","S","T","R","I","N","G">>,
      <<"T","O","_","T","I","M","E","D","U","R","A","T","I","O","N">>,
      <<"T","O","_","U","N","S","I","G","N","E","D","_","L","O","N","G">>,
      <<"T","O","_","V","E","R","S","I","O","N">>,
      <<"K","Q","L">>,
      <<"M","A","T","C","H">>,
      <<"Q","S","T","R">>,
      <<"S","T","_","D","I","S","T","A","N","C","E">>,
      <<"S","T","_","I","N","T","E","R","S","E","C","T","S">>,
      <<"S","T","_","D","I","S","J","O","I","N","T">>,
      <<"S","T","_","C","O","N","T","A","I","N","S">>,
      <<"S","T","_","W","I","T","H","I","N">>
   >>

Digits == {"0","1","2","3","4","5","6","7","8","9"}

\* A character of a word in the sense of prompt_toolkit's WORD=False.
is_word_char(c) ==
   \/ \E i \in 1..Len(Lowers) : Lowers[i] = c \/ Uppers[i] = c
   \/ c \in Digits \cup {"_"}

\* The longest suffix of s whose characters all satisfy keep.
RECURSIVE suffix_while(_, _, _)
suffix_while(s, big, n) ==
   IF n < Len(s) /\ ( (~ isspace(s[Len(s) - n]))
                      /\ (big \/ is_word_char(s[Len(s) - n]) = is_word_char(s[Len(s)])) )
   THEN suffix_while(s, big, n + 1)
   ELSE SubSeq(s, Len(s) - n + 1, Len(s))

\* document.get_word_before_cursor(WORD=big)
get_word_before_cursor(text, big) ==
   IF text = <<>> \/ isspace(text[Len(text)]) THEN <<>>
   ELSE suffix_while(text, big, 0)

\* A completion: the text offered and where it is inserted.
Completion(text, start_position, style) ==
   [text |-> text, start_position |-> start_position, style |-> style]

\* [name for name in index_names if name.startswith(word)]
names_with_prefix(names, word) ==
   SelectSeq(names, LAMBDA name : startswith(name, word))

\* WordCompleter(ESQL_KEYWORDS, ignore_case=True).get_completions
keywords_matching(words, word) ==
   LET matching == SelectSeq(words, LAMBDA w : startswith(lower(w), word))
   IN  [i \in 1..Len(matching) |-> Completion(matching[i], - Len(word), "")]

keyword_completer(text) ==
   keywords_matching(ESQL_KEYWORDS, lower(get_word_before_cursor(text, FALSE)))

\* "FROM " in text.split()[-2:]
from_context(text) ==
   contains(last_two(split(text)), <<"F","R","O","M"," ">>)

\* The index-name branch of get_completions for a listing call that ends
\* as svc: the completions yielded and the exception raised, if any.
index_completions(text_before_cursor, svc) ==
   LET word_before_cursor == get_word_before_cursor(text_before_cursor, TRUE)
       names == names_with_prefix(svc.indices, word_before_cursor)
   IN  IF svc.raises = None
       THEN [yielded |-> [i \in 1..Len(names) |->
                            Completion(names[i], - Len(word_before_cursor),
                                       "fg:ansiblue")],
             raised |-> None]
       ELSE IF \/ isinstance(svc.raises, "ConnectionError")
               \/ isinstance(svc.raises, "AuthenticationException")
       THEN [yielded |-> << Completion(<<"Error fetching indices: ", svc.raises>>,
                                       0, "fg:ansired") >>,
             raised |-> None]
       ELSE [yielded |-> <<>>, raised |-> svc.raises]

\* ESQLCompleter.get_completions: everything the generator yields, and the
\* exception that ends it, if any.
get_completions(text_before_cursor, svc) ==
   LET text == upper(text_before_cursor)
       idx == IF from_context(text)
              THEN index_completions(text_before_cursor, svc)
              ELSE [yielded |-> <<>>, raised |-> None]
   IN  IF idx.raised # None
       THEN idx
       ELSE [yielded |-> idx.yielded \o keyword_completer(text_before_cursor),
             raised |-> None]

\* Texts before the cursor.
Documents ==
   { <<>>,
     <<"f","r">>,
     <<"l","o">>,
     <<"F","R","O","M">>,
     <<"F","R","O","M"," ">>,
     <<"F","R","O","M"," ","l","o">>,
     <<"f","r","o","m"," ","l","o">>,
     <<"f","r","o","m"," ","L","O">>,
     <<"F","R","O","M"," ","m">>,
     <<"F","R","O","M"," ","l","o","g","s","-">>,
     <<"F","R","O","M"," ","x"," ","|"," ","l","i">>,
     <<"F","R","O","M"," ","x"," ","|"," ","W","H","E","R","E"," ","a"," ","s","t">>,
     <<"R","O","W"," ","\"","F","R","O","M"," ","\""," ","l","o">> }

IndexNames ==
   << <<"l","o","g","s","-","1">>, <<"l","o","g","s","-","2">>,
      <<"m","e","t","r","i","c","s">>, <<"L","o","g","s">> >>

\* Ways es_client.cat.indices(format="json", h="index") can end.
Services ==
   { [raises |-> None, indices |-> IndexNames],
     [raises |-> None, indices |-> SubSeq(IndexNames, 1, 3)],
     [raises |-> None, indices |-> <<>>],
     [raises |-> "ConnectionError", indices |-> <<>>],
     [raises |-> "AuthenticationException", indices |-> <<>>],
     [raises |-> "ConnectionTimeout", indices |-> <<>>],
     [raises |-> "ApiError", indices |-> <<>>] }

NoCompletions == [yielded |-> <<>>, raised |-> None]

\* The line editor asks the completer for the completions of the text typed.
complete ==
   /\ prog = "cli" /\ pc = "Completing"
   /\ completions' = get_completions(document, service)
   /\ pc' = "Completed"
   /\ UNCHANGED << prog, env, argv, es_client, ping, target, console, prompts,
                   inputs, query, executed, resp, raised, unhandled, closes,
                   exit_code, document, service >>

\* ------------------------------------------------------------------------
\* Specifications
\* ------------------------------------------------------------------------
NoTarget == [url |-> None, api_key |-> None]
NoBody == [keys |-> {}, columns |-> <<>>, values |-> <<>>]
NoArgv == [flags |-> {}, query |-> <<>>]

\* A run of one of the two programs on some environment.
Init ==
   /\ prog \in {"cli", "esql"}
   /\ pc = IF prog = "cli" THEN "Connecting" ELSE "Start"
   /\ env \in [url : EnvUrls, key : EnvKeys]
   /\ argv \in (IF prog = "cli" THEN {NoArgv} ELSE Argvs)
   /\ es_client = None
   /\ ping = None
   /\ target = NoTarget
   /\ console = <<>>
   /\ prompts = 0
   /\ inputs = <<>>
   /\ query = <<>>
   /\ executed = <<>>
   /\ resp = NoBody
   /\ raised = None
   /\ unhandled = None
   /\ closes = 0
   /\ exit_code = -1
   /\ document = <<>>
   /\ service = [raises |-> None, indices |-> <<>>]
   /\ completions = NoCompletions

Next ==
   \/ cli_connect
   \/ cli_prompt
   \/ cli_execute
   \/ cli_closing
   \/ esql_main
   \/ esql_main_query

Spec == Init /\ [][Next]_vars

\* One completion request of the REPL's line editor.
InitCompleter ==
   /\ prog = "cli"
   /\ pc = "Completing"
   /\ env = [url |-> None, key |-> None]
   /\ argv = NoArgv
   /\ es_client = "open"
   /\ ping = "True"
   /\ target = [url |-> "http://localhost:9200", api_key |-> None]
   /\ console = <<>>
   /\ prompts = 1
   /\ inputs = <<>>
   /\ query = <<>>
   /\ executed = <<>>
   /\ resp = NoBody
   /\ raised = None
   /\ unhandled = None
   /\ closes = 0
   /\ exit_code = -1
   /\ document \in Documents
   /\ service \in Services
   /\ completions = NoCompletions

NextCompleter == complete

SpecCompleter == InitCompleter /\ [][NextCompleter]_vars

\* ------------------------------------------------------------------------
\* Properties
\* ------------------------------------------------------------------------
\* The messages of a given kind in what was printed.
count(kind) == Cardinality({i \in 1..Len(console) : console[i].kind = kind})

\* Whether a table or a data frame is among the messages of out.
has_table(out) ==
   \E i \in 1..Len(out) : out[i].kind \in {"Table", "DataFrame", "Empty DataFrame"}

\* What the last step printed.
printed == SubSeq(console', Len(console) + 1, Len(console'))

Farewell == "Exiting ESQL CLI. Goodbye!"
ConnectError == "Error connecting to Elasticsearch:"
NoResults == "Query returned no results."

\* The input lines of Lines that are blank, and those that are exit commands.
BlankLines == { <<>>, <<" ", " ">> }
ExitLines == { <<"e","x","i","t">>, <<" ","Q","U","I","T"," ">> }

\* C1: in the REPL, an interrupt (KeyboardInterrupt or EOFError) raised while
\* prompting or executing takes main straight to Closing: the loop is left.
C1_InterruptLeavesLoop ==
   (prog = "cli" /\ raised \in Interrupts) => pc = "Closing"

\* C2: however main of the REPL ends, the Closing step has run exactly once:
\* the farewell is printed once and a client that was created is closed once;
\* before the end of main nothing of it has happened.
C2_ClosingExactlyOnce ==
   prog = "cli" =>
      IF pc = "Done"
      THEN /\ count(Farewell) = 1
           /\ console[Len(console)].kind = Farewell
           /\ es_client # "open"
           /\ closes = IF es_client = None THEN 0 ELSE 1
      ELSE /\ count(Farewell) = 0
           /\ closes = 0
           /\ es_client # "closed"

C2_Witness ==
   /\ prog = "cli" /\ pc = "Done"
   /\ es_client = "closed" /\ closes = 1
   /\ executed # <<>>

\* C3: an exception other than an interrupt raised by the query executor or
\* by the rendering of its result is reported on the console and the loop
\* is back at Prompting; main does not go to Closing.
C3_QueryErrorReturnsToPrompt ==
   [][ (prog = "cli" /\ pc = "Executing" /\ raised' # None
        /\ raised' \notin Interrupts)
       => /\ pc' = "Prompting"
          /\ Len(printed) = 1
          /\ printed[1].kind \in {"API Error:", "An unexpected error occurred:"}
          /\ unhandled' = None ]_vars

\* A transport error was reported and a later query of the same run was
\* executed and rendered.
C3_Witness ==
   /\ prog = "cli"
   /\ Len(executed) >= 2
   /\ \E i, j \in 1..Len(console) :
         /\ i < j
         /\ console[i].kind = "An unexpected error occurred:"
         /\ console[j].kind = "Table"

\* C4: the query executor is never called for a blank line or for an
\* exit/quit line, and an exit/quit line ends the loop: blank lines followed
\* by an exit line give zero executions and main goes through Closing.
C4_NoExecutionForBlankOrExit ==
   prog = "cli" =>
      /\ \A i \in 1..Len(executed) : executed[i] \notin BlankLines \cup ExitLines
      /\ Len(executed) <=
            Cardinality({i \in 1..Len(inputs) :
                            inputs[i] \notin BlankLines \cup ExitLines})
      /\ \A i \in 1..Len(inputs) :
            inputs[i] \in ExitLines => i = Len(inputs) /\ pc \in {"Closing", "Done"}

C4_Witness ==
   /\ prog = "cli" /\ pc = "Done"
   /\ inputs = << <<" ", " ">>, <<" ","Q","U","I","T"," ">> >>
   /\ executed = <<>>
   /\ exit_code = 0

\* C7: when ping() returns False or raises a connection or authentication
\* error, main goes from Connecting to Closing with the connection error
\* message; no prompt is shown and no query is executed.
C7_FailedStartupGoesToClosing ==
   (prog = "cli" /\ ping \in {"False", "ConnectionError", "AuthenticationException"})
   => /\ pc \in {"Closing", "Done"}
      /\ count(ConnectError) = 1
      /\ prompts = 0
      /\ inputs = <<>>
      /\ executed = <<>>

C7_Witness ==
   /\ prog = "cli" /\ ping = "False" /\ pc = "Done"
   /\ es_client = "closed"

\* C8 as stated: every run of the one-shot CLI ends either with the table
\* printed and exit status 0, or with a diagnostic, no table and exit status 1.
C8_TwoOutcomes ==
   (prog = "esql" /\ pc = "Done")
   => \/ exit_code = 0 /\ has_table(console)
      \/ exit_code = 1 /\ ~ has_table(console) /\ console # <<>>

\* C8 amended: every run of the one-shot CLI whose only argument is
\* --query <string> and which the user does not interrupt ends either with
\* the table printed and exit status 0 (when the request succeeded and its
\* body was decoded), or with a diagnostic, no table and exit status 1.
C8_TwoOutcomesWithQuery ==
   (prog = "esql" /\ pc = "Done" /\ argv.flags = {"--query"}
    /\ raised # "KeyboardInterrupt")
   => \/ /\ exit_code = 0 /\ has_table(console)
         /\ raised = None /\ executed = << argv.query >>
      \/ /\ exit_code = 1 /\ ~ has_table(console) /\ console # <<>>
         /\ (raised # None \/ executed = <<>>)

C8_Witness ==
   /\ prog = "esql" /\ pc = "Done" /\ argv.flags = {"--query"}
   /\ raised = "JSONDecodeError" /\ exit_code = 1

\* C9 as stated: with ELASTICSEARCH_URL absent both programs go on with
\* http://localhost:9200; the one-shot CLI, given an API key and a query,
\* posts to http://localhost:9200/_query.
C9_DefaultUrlEverywhere ==
   (env.url = None /\ pc = "Done")
   => IF prog = "cli"
      THEN target.url = "http://localhost:9200"
      ELSE (truthy(env.key) /\ argv.flags = {"--query"})
           => target.url = "http://localhost:9200/_query"

\* C9 amended: with ELASTICSEARCH_URL absent the interactive client is built
\* for http://localhost:9200, without API key, and goes on; the one-shot CLI
\* prints an error and ends with exit status 1 without sending a request.
C9_DefaultUrlInteractiveOnly ==
   env.url = None
   => IF prog = "cli"
      THEN pc # "Connecting"
           => target = [url |-> "http://localhost:9200", api_key |-> None]
      ELSE pc # "Start"
           => /\ pc = "Done" /\ exit_code = 1
              /\ console = << Msg("Error: Elasticsearch URL not found.") >>
              /\ target = NoTarget /\ executed = <<>>

C9_Witness ==
   /\ prog = "cli" /\ env.url = None /\ truthy(env.key)
   /\ pc = "Prompting" /\ executed # <<>>

\* C10 as stated: a response with an empty list of rows is rendered as the
\* "no results" notice and nothing else, by the REPL and by the one-shot CLI.
C10_NoticeEverywhere ==
   [][ (executed' # executed /\ raised' = None /\ resp' = EmptyBody)
       => /\ printed # <<>>
          /\ printed[1] = Msg(NoResults)
          /\ ~ has_table(printed) ]_vars

\* C10 amended: a response with an empty list of rows is rendered by the
\* REPL (print_results) as the "no results" notice and nothing else; the
\* one-shot CLI has no such notice and prints the empty data frame.
C10_NoticeInteractiveOnly ==
   [][ (executed' # executed /\ raised' = None /\ resp' = EmptyBody)
       => IF prog = "cli"
          THEN printed = << Msg(NoResults) >>
          ELSE /\ printed[1] = [kind |-> "Empty DataFrame",
                                cols |-> <<"a", "b">>, rows |-> <<>>]
               /\ \A i \in 1..Len(printed) : printed[i].kind # NoResults ]_vars

C10_Witness ==
   /\ prog = "cli" /\ resp = EmptyBody /\ raised = None
   /\ console # <<>> /\ console[Len(console)] = Msg(NoResults)

\* The token FROM is one of the last two whitespace-delimited tokens of the
\* upper-cased text before the cursor.
after_from(text) == contains(last_two(split(upper(text))), <<"F","R","O","M">>)

\* C5: after FROM, with the listing call returning index names, the
\* completions are the names that start with the word under the cursor, each
\* with start position minus the length of that word, then the keywords.
C5_IndexNamesAfterFrom ==
   (pc = "Completed" /\ after_from(document) /\ service.raises = None)
   => /\ completions.raised = None
      /\ completions.yielded =
            index_completions(document, service).yielded
            \o keyword_completer(document)

\* C6: after FROM, with the listing call failing, get_completions does not
\* raise: it yields one error candidate with start position 0 and then every
\* keyword matching the word under the cursor.
C6_ListingFailureDegrades ==
   (pc = "Completed" /\ after_from(document) /\ service.raises # None)
   => /\ completions.raised = None
      /\ Len(completions.yielded) = 1 + Len(keyword_completer(document))
      /\ completions.yielded[1].start_position = 0
      /\ completions.yielded[1].style = "fg:ansired"
      /\ SubSeq(completions.yielded, 2, Len(completions.yielded))
            = keyword_completer(document)

====
